---------------------------- MODULE Spec2Model ----------------------------
(***************************************************************************)
(* Job lifecycle of the Construction_Web back office: the jobs and         *)
(* line_items tables, the status workflow, the estimate / invoice number   *)
(* generators and the server actions that mutate a job.                    *)
(*                                                                         *)
(* Representation.                                                         *)
(*   - a string that the code builds character by character (an estimate   *)
(*     or invoice number) is a sequence of one-character strings;          *)
(*   - a `date` column is <<year, month, day>>, SQL NULL is <<>>;           *)
(*   - a `text` column keeps its string, SQL NULL is the value NULL;        *)
(*   - an input amount is a whole number of thousandths (so that amounts   *)
(*     with more than two decimals exist), a decimal(10,2) column is a     *)
(*     whole number of hundredths;                                         *)
(*   - the columns createdAt / updatedAt are write-only timestamps that no *)
(*     operation reads; they are left out.                                 *)
(* Sequential use: a server action runs from its first read to its return  *)
(* as one step.  What a call returns is a function of the store it reads:  *)
(* for each action f, fResult(args) is the { success, error } that f       *)
(* returns, and the action f(args) writes exactly when it succeeds.        *)
(* Concurrent use: a call is a record in `calls` and advances from one     *)
(* await on the database to the next, other calls running in between.     *)
(***************************************************************************)
EXTENDS Integers, Sequences, FiniteSets, TLC

VARIABLES
    jobs,        \* the jobs table: id -> row, for the ids present
    lineItems,   \* the line_items table: a set of rows
    nextId,      \* the serial of jobs.id
    now,         \* the clock, in ticks since the first UTC midnight
    tzOffset,    \* local time minus UTC, in hours (fixed for a server)
    calls        \* the calls that run step by step: started, and maybe returned

vars == <<jobs, lineItems, nextId, now, tzOffset, calls>>

----------------------------------------------------------------------------
(* Bounds of the model *)

MaxJobs == 1
MaxNow == 1
TicksPerDay == 1

TzOffsets == {0}
JobIds == 1..MaxJobs

----------------------------------------------------------------------------
(* Values *)

NULL == "NULL"
Undefined == "undefined"
NoDate == <<>>
NoNumber == <<>>

\* schema.ts JOB_STATUSES
JOB_STATUSES ==
    << "Estimate Created", "Estimate Sent", "Approved", "In Progress",
       "Completed", "Invoiced", "Paid" >>

STATUS_ORDER == JOB_STATUSES

Statuses == { JOB_STATUSES[i] : i \in 1..Len(JOB_STATUSES) }

\* Array.prototype.indexOf, zero based, -1 when absent
IndexOf(arr, x) ==
    IF \E i \in 1..Len(arr) : arr[i] = x
    THEN (CHOOSE i \in 1..Len(arr) : arr[i] = x /\ \A k \in 1..(i-1) : arr[k] # x) - 1
    ELSE -1

NullField == ""

\* STATUS_DATE_FIELDS with the column of 'Approved' repeated for 'In Progress'
STATUS_DATE_FIELDS_repeated(status) ==
    CASE status = "Estimate Created" -> "estimateDate"
      [] status = "Estimate Sent"    -> NullField
      [] status = "Approved"         -> "approvalDate"
      [] status = "In Progress"      -> "approvalDate"
      [] status = "Completed"        -> "completionDate"
      [] status = "Invoiced"         -> "invoiceDate"
      [] status = "Paid"             -> "paymentDate"

STATUS_DATE_FIELDS(status) ==
    CASE status = "Estimate Created" -> "estimateDate"
      [] status = "Estimate Sent"    -> NullField
      [] status = "Approved"         -> "approvalDate"
      [] status = "In Progress"      -> "startDate"
      [] status = "Completed"        -> "completionDate"
      [] status = "Invoiced"         -> "invoiceDate"
      [] status = "Paid"             -> "paymentDate"

----------------------------------------------------------------------------
(* Workflow engine (lib/utils/workflow) *)

\* canTransitionTo with > for === : any forward move is let through
canTransitionTo_forward(currentStatus, newStatus) ==
    IndexOf(STATUS_ORDER, newStatus) > IndexOf(STATUS_ORDER, currentStatus)

\* canTransitionTo letting the current status through as well
canTransitionTo_sameOrNext(currentStatus, newStatus) ==
    LET currentIdx == IndexOf(STATUS_ORDER, currentStatus)
        newIdx     == IndexOf(STATUS_ORDER, newStatus)
    IN  newIdx = currentIdx \/ newIdx = currentIdx + 1

\* canTransitionTo comparing the distance without its sign
canTransitionTo_adjacent(currentStatus, newStatus) ==
    LET currentIdx == IndexOf(STATUS_ORDER, currentStatus)
        newIdx     == IndexOf(STATUS_ORDER, newStatus)
    IN  newIdx = currentIdx + 1 \/ newIdx = currentIdx - 1

canTransitionTo(currentStatus, newStatus) ==
    LET currentIdx == IndexOf(STATUS_ORDER, currentStatus)
        newIdx     == IndexOf(STATUS_ORDER, newStatus)
    IN  newIdx = currentIdx + 1

\* canEditJob that still lets an approved job through
canEditJob_untilStarted(status) ==
    status = "Estimate Created" \/ status = "Estimate Sent" \/ status = "Approved"

canEditJob(status) == status = "Estimate Created" \/ status = "Estimate Sent"

\* canDeleteJob that refuses only paid jobs
canDeleteJob_unlessPaid(status) == status # "Paid"

canDeleteJob(status) == status = "Estimate Created" \/ status = "Estimate Sent"

----------------------------------------------------------------------------
(* Clock and calendar *)

\* the days of the months of 2025 and 2026, neither a leap year
DaysInMonth == << 31, 28, 31, 30, 31, 30, 31, 31, 30, 31, 30, 31 >>

\* the month and day of the n-th day of a year, counted from the first of month m
RECURSIVE MonthDay(_, _)
MonthDay(n, m) ==
    IF n <= DaysInMonth[m] THEN [ month |-> m, day |-> n ]
    ELSE MonthDay(n - DaysInMonth[m], m + 1)

\* The civil date of day number k; day 0 is 2025-12-30 (the 364th day of 2025),
\* so that the model's days cross a month and a year boundary.
CivilDate(k) ==
    LET n  == 364 + k
        md == IF n <= 365 THEN MonthDay(n, 1) ELSE MonthDay(n - 365, 1)
    IN  [ year |-> IF n <= 365 THEN 2025 ELSE 2026, month |-> md.month, day |-> md.day ]

HoursPerDay == 24

\* new Date() read through getFullYear / getMonth / getDate: the local date
LocalDate == CivilDate((now * HoursPerDay + tzOffset * TicksPerDay) \div (HoursPerDay * TicksPerDay))

\* new Date().toISOString().split('T')[0]: the UTC date
IsoDate(t) ==
    LET c == CivilDate(t \div TicksPerDay) IN << c.year, c.month, c.day >>

\* the days of a year before the first of month m
RECURSIVE DaysBefore(_)
DaysBefore(m) == IF m = 1 THEN 0 ELSE DaysBefore(m - 1) + DaysInMonth[m - 1]

\* new Date('YYYY-MM-DD').getTime(): the UTC midnight of the date, in ticks
getTime(date) ==
    ((date[1] - 2025) * 365 + DaysBefore(date[2]) + date[3] - 364) * TicksPerDay

\* getStatusDateUpdates(newStatus): the columns to stamp, as a partial row
getStatusDateUpdates(newStatus) ==
    LET dateField == STATUS_DATE_FIELDS(newStatus)
        dateValue == IsoDate(now)
    IN  IF dateField # NullField THEN (dateField :> dateValue) ELSE <<>>

\* db.update(...).set(updates): the row with the named columns overwritten
SetColumns(row, updates) ==
    [ f \in DOMAIN row |-> IF f \in DOMAIN updates THEN updates[f] ELSE row[f] ]

----------------------------------------------------------------------------
(* Strings *)

DigitChars == << "0", "1", "2", "3", "4", "5", "6", "7", "8", "9" >>

\* Number.prototype.toString of a non-negative integer
RECURSIVE NumToString(_)
NumToString(n) ==
    IF n < 10 THEN << DigitChars[n + 1] >>
    ELSE NumToString(n \div 10) \o << DigitChars[(n % 10) + 1] >>

\* String.prototype.padStart
RECURSIVE padStart(_, _, _)
padStart(s, targetLength, ch) ==
    IF Len(s) >= targetLength THEN s ELSE padStart(<< ch >> \o s, targetLength, ch)

\* String.prototype.slice(-2)
sliceLast2(s) == IF Len(s) <= 2 THEN s ELSE SubSeq(s, Len(s) - 1, Len(s))

\* SQL: s LIKE 'prefix%' (NULL, here <<>>, matches nothing)
like(s, prefix) == Len(s) >= Len(prefix) /\ SubSeq(s, 1, Len(prefix)) = prefix

\* String.fromCharCode for the codes from 65 on
CharsFrom65 ==
    << "A", "B", "C", "D", "E", "F", "G", "H", "I", "J", "K", "L", "M",
       "N", "O", "P", "Q", "R", "S", "T", "U", "V", "W", "X", "Y", "Z",
       "[", "\\", "]", "^", "_" >>

fromCharCode(code) == CharsFrom65[code - 64]

\* String.prototype.trim on the strings the model feeds in
trim(s) ==
    CASE s = " "            -> ""
      [] s = " Paint "      -> "Paint"
      [] s = " two coats "  -> "two coats"
      [] s = " call first " -> "call first"
      [] OTHER              -> s

----------------------------------------------------------------------------
(* Identifier generator (lib/utils/numbers) *)

\* `${year}${month}${day}` of the date today
datePrefixOf(today) ==
    LET year  == sliceLast2(NumToString(today.year))
        month == padStart(NumToString(today.month), 2, "0")
        day   == padStart(NumToString(today.day), 2, "0")
    IN  year \o month \o day

datePrefix == datePrefixOf(LocalDate)

\* randomDigits stands for Math.floor(100 + Math.random() * 900)
generateEstimateNumber(randomDigits) ==
    LET count == Cardinality({ id \in DOMAIN jobs :
                                 like(jobs[id].estimateNumber, datePrefix) })
        sequenceLetter == fromCharCode(65 + count)
    IN  datePrefix \o << "T" >> \o NumToString(randomDigits) \o << sequenceLetter >>

generateInvoiceNumber ==
    LET count == Cardinality({ id \in DOMAIN jobs :
                                 like(jobs[id].invoiceNumber, datePrefix) })
        sequenceNumber == padStart(NumToString(count + 1), 3, "0")
    IN  datePrefix \o sequenceNumber

\* the character classes \d and [A-Z] of the two regular expressions
IsDigit(c) == \E i \in 1..Len(DigitChars) : DigitChars[i] = c

UpperCase ==
    { "A", "B", "C", "D", "E", "F", "G", "H", "I", "J", "K", "L", "M",
      "N", "O", "P", "Q", "R", "S", "T", "U", "V", "W", "X", "Y", "Z" }

\* parseInt of a string of digits
RECURSIVE parseInt(_)
parseInt(s) ==
    IF Len(s) = 0 THEN 0
    ELSE 10 * parseInt(SubSeq(s, 1, Len(s) - 1)) + IndexOf(DigitChars, s[Len(s)])

\* what the parsers return when the regular expression does not match (null)
NoMatch == [ match |-> FALSE ]

\* /^(\d{2})(\d{2})(\d{2})T(\d{3})([A-Z])$/
parseEstimateNumber(estimateNumber) ==
    IF /\ Len(estimateNumber) = 11
       /\ \A i \in { 1, 2, 3, 4, 5, 6, 8, 9, 10 } : IsDigit(estimateNumber[i])
       /\ estimateNumber[7] = "T"
       /\ estimateNumber[11] \in UpperCase
    THEN [ match    |-> TRUE,
           year     |-> 2000 + parseInt(SubSeq(estimateNumber, 1, 2)),
           month    |-> parseInt(SubSeq(estimateNumber, 3, 4)),
           day      |-> parseInt(SubSeq(estimateNumber, 5, 6)),
           random   |-> SubSeq(estimateNumber, 8, 10),
           sequence |-> estimateNumber[11] ]
    ELSE NoMatch

\* /^(\d{2})(\d{2})(\d{2})(\d{3})$/
parseInvoiceNumber(invoiceNumber) ==
    IF /\ Len(invoiceNumber) = 9
       /\ \A i \in 1..9 : IsDigit(invoiceNumber[i])
    THEN [ match    |-> TRUE,
           year     |-> 2000 + parseInt(SubSeq(invoiceNumber, 1, 2)),
           month    |-> parseInt(SubSeq(invoiceNumber, 3, 4)),
           day      |-> parseInt(SubSeq(invoiceNumber, 5, 6)),
           sequence |-> parseInt(SubSeq(invoiceNumber, 7, 9)) ]
    ELSE NoMatch

----------------------------------------------------------------------------
(* Amounts *)

\* Number.prototype.toFixed(2) of an amount given in thousandths, as a number
\* of hundredths: the nearest, the larger of two equally near
toFixed2(x) == (x + 5) \div 10

\* lineItems.reduce((sum, item) => sum + (item.amount || 0), 0)
RECURSIVE reduceAmounts(_)
reduceAmounts(items) ==
    IF Len(items) = 0 THEN 0
    ELSE reduceAmounts(SubSeq(items, 1, Len(items) - 1)) + items[Len(items)].amount

\* itemRows that numbers the items from 0, by their index
itemRows_fromZero(jobId, items) ==
    { [ jobId       |-> jobId,
        itemNumber  |-> i - 1,
        action      |-> trim(items[i].action),
        amount      |-> toFixed2(items[i].amount),
        description |-> trim(items[i].description) ] : i \in 1..Len(items) }

\* data.lineItems.map((item, index) => ({ jobId, itemNumber: index + 1, ... }))
itemRows(jobId, items) ==
    { [ jobId       |-> jobId,
        itemNumber  |-> i,
        action      |-> trim(items[i].action),
        amount      |-> toFixed2(items[i].amount),
        description |-> trim(items[i].description) ] : i \in 1..Len(items) }

\* the line_items rows of a job
itemsOf(jobId) == { r \in lineItems : r.jobId = jobId }

----------------------------------------------------------------------------
(* Inputs *)

\* the customers table (never written by the job actions)
Customers == { 7 }
CustomerInputs == { 7, 8 }

good == [ action |-> "Demo",    amount |-> 100000, description |-> "Remove wall" ]
sub  == [ action |-> " Paint ", amount |-> 4,      description |-> " two coats " ]

ItemListInputs == { <<>>, << good >>, << sub, sub >> }

\* items that the validation loop of createEstimate refuses
blank    == [ action |-> " ",    amount |-> 100000, description |-> "Remove wall" ]
nodesc   == [ action |-> "Demo", amount |-> 100000, description |-> "" ]
negative == [ action |-> "Demo", amount |-> 0 - 1,  description |-> "Remove wall" ]

RefusedItemLists == { << blank >>, << good, nodesc >>, << good, negative >> }

NotesInputs == { Undefined, "", " call first " }
NotesStrings == NotesInputs \ { Undefined }

RandomDigits == { 100 }

\* no date given, or a date picked in the form (here the day before day 0)
PaymentDateInputs == { NoDate, IsoDate(0 - TicksPerDay) }

----------------------------------------------------------------------------
(* What a call returns: { success, error } *)

Ok == [ success |-> TRUE, error |-> <<>> ]

Failure(error) == [ success |-> FALSE, error |-> error ]

\* x || null on a string
orNull(x) == IF x = "" \/ x = Undefined THEN NULL ELSE x

\* data.notes?.trim()
trimOpt(x) == IF x = Undefined THEN Undefined ELSE trim(x)

----------------------------------------------------------------------------
(* lib/actions/estimates *)

\* the first check of the validation loop that an item fails, "" when none
\* itemError without the test of the amount
itemError_anyAmount(item) ==
    IF trim(item.action) = "" THEN ": Action is required"
    ELSE IF trim(item.description) = "" THEN ": Description is required"
    ELSE ""

itemError(item) ==
    IF trim(item.action) = "" THEN ": Action is required"
    ELSE IF item.amount < 0 THEN ": Amount must be positive"
    ELSE IF trim(item.description) = "" THEN ": Description is required"
    ELSE ""

newJobRow(customerId, estimateNumber, total, notes) ==
    [ customerId     |-> customerId,
      estimateNumber |-> estimateNumber,
      invoiceNumber  |-> NoNumber,
      estimateDate   |-> IsoDate(now),
      approvalDate   |-> NoDate,
      startDate      |-> NoDate,
      completionDate |-> NoDate,
      invoiceDate    |-> NoDate,
      paymentDate    |-> NoDate,
      status         |-> "Estimate Created",
      totalAmount    |-> toFixed2(total),
      notes          |-> orNull(trimOpt(notes)) ]

createEstimateResult(customerId, items, notes, randomDigits) ==
    LET invalid == { i \in 1..Len(items) : itemError(items[i]) # "" }
        first == CHOOSE i \in invalid : \A k \in invalid : i <= k
        estimateNumber == generateEstimateNumber(randomDigits)
    IN  IF Len(items) = 0
        THEN Failure(<< "At least one line item is required" >>)
        ELSE IF invalid # {}
        THEN Failure(<< "Line item " >> \o NumToString(first) \o << itemError(items[first]) >>)
        ELSE IF \/ customerId \notin Customers
                \/ \E id \in DOMAIN jobs : jobs[id].estimateNumber = estimateNumber
        \* the insert violates the foreign key or the unique constraint and throws
        THEN Failure(<< "Failed to create estimate" >>)
        ELSE Ok

createEstimate(customerId, items, notes, randomDigits) ==
    LET estimateNumber == generateEstimateNumber(randomDigits)
        total == reduceAmounts(items)
    IN  IF ~createEstimateResult(customerId, items, notes, randomDigits).success
        THEN UNCHANGED vars
        ELSE /\ jobs' = jobs @@ (nextId :> newJobRow(customerId, estimateNumber, total, notes))
             /\ lineItems' = lineItems \cup itemRows(nextId, items)
             /\ nextId' = nextId + 1
             /\ UNCHANGED << now, tzOffset, calls >>

updateEstimateResult(id, hasItems, items, notes) ==
    IF id \notin DOMAIN jobs
    THEN Failure(<< "Estimate not found" >>)
    ELSE IF ~canEditJob(jobs[id].status)
    THEN Failure(<< "Cannot update estimate after approval" >>)
    ELSE IF hasItems /\ Len(items) = 0
    THEN Failure(<< "At least one line item is required" >>)
    ELSE Ok

\* updateEstimateSet that mints a new estimate number on every edit
updateEstimateSet_renumber(job, items, notes) ==
    ("totalAmount" :> toFixed2(reduceAmounts(items))) @@
    ("notes" :> job.notes) @@
    ("estimateNumber" :> generateEstimateNumber(100))

\* the columns the update of the job row sets when line items are supplied
updateEstimateSet(job, items, notes) ==
    LET total == reduceAmounts(items)
        t == trimOpt(notes)
    IN  ("totalAmount" :> toFixed2(total)) @@
        ("notes" :> IF t = "" \/ t = Undefined THEN job.notes ELSE t)

updateEstimate(id, hasItems, items, notes) ==
    IF ~updateEstimateResult(id, hasItems, items, notes).success
    THEN UNCHANGED vars
    ELSE IF hasItems
    THEN /\ lineItems' = (lineItems \ itemsOf(id)) \cup itemRows(id, items)
         /\ jobs' = [ jobs EXCEPT ![id] = SetColumns(@, updateEstimateSet(@, items, notes)) ]
         /\ UNCHANGED << nextId, now, tzOffset, calls >>
    ELSE /\ jobs' = IF notes # Undefined
                    THEN [ jobs EXCEPT ![id] = SetColumns(@, "notes" :> orNull(trim(notes))) ]
                    ELSE jobs
         /\ UNCHANGED << lineItems, nextId, now, tzOffset, calls >>

deleteEstimateResult(id) ==
    IF id \notin DOMAIN jobs
    THEN Failure(<< "Estimate not found" >>)
    ELSE IF ~canDeleteJob(jobs[id].status)
    THEN Failure(<< "Cannot delete estimate after approval" >>)
    ELSE Ok

deleteEstimate(id) ==
    IF ~deleteEstimateResult(id).success
    THEN UNCHANGED vars
    ELSE /\ lineItems' = lineItems \ itemsOf(id)
         /\ jobs' = [ i \in DOMAIN jobs \ { id } |-> jobs[i] ]
         /\ UNCHANGED << nextId, now, tzOffset, calls >>

markEstimateAsSentResult(id) ==
    IF id \notin DOMAIN jobs
    THEN Failure(<< "Estimate not found" >>)
    ELSE IF jobs[id].status # "Estimate Created"
    THEN Failure(<< "Estimate has already been sent or approved" >>)
    ELSE Ok

markEstimateAsSent(id) ==
    IF ~markEstimateAsSentResult(id).success
    THEN UNCHANGED vars
    ELSE /\ jobs' = [ jobs EXCEPT ![id] = SetColumns(@, "status" :> "Estimate Sent") ]
         /\ UNCHANGED << lineItems, nextId, now, tzOffset, calls >>

approveEstimateResult(id) ==
    IF id \notin DOMAIN jobs
    THEN Failure(<< "Estimate not found" >>)
    ELSE IF jobs[id].status # "Estimate Created" /\ jobs[id].status # "Estimate Sent"
    THEN Failure(<< "Estimate has already been approved" >>)
    ELSE Ok

\* approveEstimateSet that stamps the start date as well
approveEstimateSet_alsoStart ==
    getStatusDateUpdates("Approved") @@ getStatusDateUpdates("In Progress") @@
    ("status" :> "Approved")

\* the columns the update of approveEstimate sets
approveEstimateSet == getStatusDateUpdates("Approved") @@ ("status" :> "Approved")

approveEstimate(id) ==
    IF ~approveEstimateResult(id).success
    THEN UNCHANGED vars
    ELSE /\ jobs' = [ jobs EXCEPT ![id] = SetColumns(@, approveEstimateSet) ]
         /\ UNCHANGED << lineItems, nextId, now, tzOffset, calls >>

----------------------------------------------------------------------------
(* lib/actions/jobs *)

\* updateJobStatusResult answering an illegal transition with the message of
\* the catch block
updateJobStatusResult_generic(id, newStatus) ==
    IF id \notin DOMAIN jobs
    THEN Failure(<< "Job not found" >>)
    ELSE IF ~canTransitionTo(jobs[id].status, newStatus)
    THEN Failure(<< "Failed to update job status" >>)
    ELSE Ok

updateJobStatusResult(id, newStatus) ==
    IF id \notin DOMAIN jobs
    THEN Failure(<< "Job not found" >>)
    ELSE LET currentStatus == jobs[id].status
         IN  IF ~canTransitionTo(currentStatus, newStatus)
             THEN Failure(<< "Cannot transition from ", currentStatus, " to ", newStatus,
                             ". Status must progress in order." >>)
             ELSE Ok

updateJobStatus(id, newStatus) ==
    IF ~updateJobStatusResult(id, newStatus).success
    THEN UNCHANGED vars
    ELSE LET dateUpdates == getStatusDateUpdates(newStatus)
         IN  /\ jobs' = [ jobs EXCEPT ![id] =
                            SetColumns(@, dateUpdates @@ ("status" :> newStatus)) ]
             /\ UNCHANGED << lineItems, nextId, now, tzOffset, calls >>

startJob(id) == updateJobStatus(id, "In Progress")

completeJob(id) == updateJobStatus(id, "Completed")

\* no read of the job: the update matches no row when the id is absent
updateJobNotesResult(id, notes) == Ok

updateJobNotes(id, notes) ==
    /\ jobs' = [ i \in DOMAIN jobs |->
                   IF i = id THEN SetColumns(jobs[i], "notes" :> orNull(trim(notes)))
                   ELSE jobs[i] ]
    /\ UNCHANGED << lineItems, nextId, now, tzOffset, calls >>

----------------------------------------------------------------------------
(* lib/actions/invoices *)

\* createInvoiceResult asking for a job that is at least Completed
createInvoiceResult_atLeastCompleted(jobId) ==
    IF jobId \notin DOMAIN jobs
    THEN Failure(<< "Job not found" >>)
    ELSE IF IndexOf(JOB_STATUSES, jobs[jobId].status) < IndexOf(JOB_STATUSES, "Completed")
    THEN Failure(<< "Job must be completed before invoicing" >>)
    ELSE Ok

createInvoiceResult(jobId) ==
    IF jobId \notin DOMAIN jobs
    THEN Failure(<< "Job not found" >>)
    ELSE IF jobs[jobId].status # "Completed"
    THEN Failure(<< "Job must be completed before invoicing" >>)
    ELSE Ok

\* the columns the update of createInvoice sets
createInvoiceSet(invoiceNumber) ==
    LET dateUpdates == getStatusDateUpdates("Invoiced")
    IN  dateUpdates @@ ("status" :> "Invoiced") @@ ("invoiceNumber" :> invoiceNumber)

createInvoice(jobId) ==
    IF ~createInvoiceResult(jobId).success
    THEN UNCHANGED vars
    ELSE LET invoiceNumber == generateInvoiceNumber
         IN  /\ jobs' = [ jobs EXCEPT ![jobId] =
                            SetColumns(@, createInvoiceSet(invoiceNumber)) ]
             /\ UNCHANGED << lineItems, nextId, now, tzOffset, calls >>

\* recordPaymentResult without the test of the status
recordPaymentResult_anyStatus(id, paymentDate) ==
    IF id \notin DOMAIN jobs THEN Failure(<< "Invoice not found" >>) ELSE Ok

recordPaymentResult(id, paymentDate) ==
    IF id \notin DOMAIN jobs
    THEN Failure(<< "Invoice not found" >>)
    ELSE IF jobs[id].status # "Invoiced"
    THEN Failure(<< "Invoice is not in invoiced status" >>)
    ELSE Ok

recordPayment(id, paymentDate) ==
    IF ~recordPaymentResult(id, paymentDate).success
    THEN UNCHANGED vars
    ELSE LET dateValue == IF paymentDate # NoDate THEN paymentDate ELSE IsoDate(now)
         IN  /\ jobs' = [ jobs EXCEPT ![id] =
                            SetColumns(@, ("status" :> "Paid") @@ ("paymentDate" :> dateValue)) ]
             /\ UNCHANGED << lineItems, nextId, now, tzOffset, calls >>

updateInvoiceNotesResult(id, notes) ==
    IF id \notin DOMAIN jobs
    THEN Failure(<< "Invoice not found" >>)
    ELSE IF jobs[id].status = "Paid"
    THEN Failure(<< "Cannot edit paid invoice" >>)
    ELSE Ok

updateInvoiceNotes(id, notes) ==
    IF ~updateInvoiceNotesResult(id, notes).success
    THEN UNCHANGED vars
    ELSE /\ jobs' = [ jobs EXCEPT ![id] = SetColumns(@, "notes" :> orNull(trim(notes))) ]
         /\ UNCHANGED << lineItems, nextId, now, tzOffset, calls >>

\* calculateOverdueStatus with >= for > : overdue from the 30th day on
calculateOverdueStatus_fromDay30(job) ==
    IF job.status = "Paid" \/ job.invoiceDate = NoDate
    THEN [ isOverdue |-> FALSE, daysOverdue |-> 0 ]
    ELSE LET daysSinceInvoice == (now - getTime(job.invoiceDate)) \div TicksPerDay
             isOverdue == daysSinceInvoice >= 30
         IN  [ isOverdue |-> isOverdue,
               daysOverdue |-> IF isOverdue THEN daysSinceInvoice - 30 ELSE 0 ]

\* the aging calculator; today.getTime() is the clock, \div is Math.floor
calculateOverdueStatus(job) ==
    IF job.status = "Paid" \/ job.invoiceDate = NoDate
    THEN [ isOverdue |-> FALSE, daysOverdue |-> 0 ]
    ELSE LET invoiceDate == getTime(job.invoiceDate)
             today == now
             daysSinceInvoice == (today - invoiceDate) \div TicksPerDay
             isOverdue == daysSinceInvoice > 30
             daysOverdue == IF isOverdue THEN daysSinceInvoice - 30 ELSE 0
         IN  [ isOverdue |-> isOverdue, daysOverdue |-> daysOverdue ]

----------------------------------------------------------------------------
(* The system: the actions called one at a time, in any order, with any of  *)
(* the inputs above                                                         *)

\* time passes
Tick ==
    /\ now < MaxNow
    /\ now' = now + 1
    /\ UNCHANGED << jobs, lineItems, nextId, tzOffset, calls >>

CreateEstimate ==
    /\ nextId <= MaxJobs
    /\ \E customerId \in CustomerInputs, items \in ItemListInputs,
          notes \in NotesInputs, randomDigits \in RandomDigits :
           createEstimate(customerId, items, notes, randomDigits)

UpdateEstimate ==
    \E id \in JobIds, notes \in NotesInputs :
        \/ \E items \in ItemListInputs : updateEstimate(id, TRUE, items, notes)
        \/ updateEstimate(id, FALSE, <<>>, notes)

DeleteEstimate == \E id \in JobIds : deleteEstimate(id)

MarkEstimateAsSent == \E id \in JobIds : markEstimateAsSent(id)

ApproveEstimate == \E id \in JobIds : approveEstimate(id)

UpdateJobStatus == \E id \in JobIds, newStatus \in Statuses : updateJobStatus(id, newStatus)

StartJob == \E id \in JobIds : startJob(id)

CompleteJob == \E id \in JobIds : completeJob(id)

UpdateJobNotes == \E id \in JobIds, notes \in NotesStrings : updateJobNotes(id, notes)

CreateInvoice == \E id \in JobIds : createInvoice(id)

RecordPayment ==
    \E id \in JobIds, paymentDate \in PaymentDateInputs : recordPayment(id, paymentDate)

UpdateInvoiceNotes == \E id \in JobIds, notes \in NotesStrings : updateInvoiceNotes(id, notes)

Init ==
    /\ jobs = <<>>
    /\ lineItems = {}
    /\ nextId = 1
    /\ now = 0
    /\ tzOffset \in TzOffsets
    /\ calls = <<>>

Next ==
    \/ Tick
    \/ CreateEstimate
    \/ UpdateEstimate
    \/ DeleteEstimate
    \/ MarkEstimateAsSent
    \/ ApproveEstimate
    \/ UpdateJobStatus
    \/ StartJob
    \/ CompleteJob
    \/ UpdateJobNotes
    \/ CreateInvoice
    \/ RecordPayment
    \/ UpdateInvoiceNotes

Spec == Init /\ [][Next]_vars

----------------------------------------------------------------------------
(* Estimating: estimates are created, with every input, and deleted again,   *)
(* so that a minted estimate number can meet a stored one                    *)

MaxCreated == 3

CreateAnyEstimate ==
    /\ nextId <= MaxCreated
    /\ \E customerId \in CustomerInputs, items \in ItemListInputs \cup RefusedItemLists,
          notes \in NotesInputs, randomDigits \in RandomDigits :
           createEstimate(customerId, items, notes, randomDigits)

DeleteAnyEstimate == \E id \in DOMAIN jobs : deleteEstimate(id)

NextCreate == Tick \/ CreateAnyEstimate \/ DeleteAnyEstimate

SpecCreate == Init /\ [][NextCreate]_vars

----------------------------------------------------------------------------
(* A busy day of estimating: estimates are created one after the other, up   *)
(* to MaxEstimates of them, while time passes                                *)

MaxEstimates == 27

CreateNextEstimate ==
    /\ nextId <= MaxEstimates
    /\ \E randomDigits \in RandomDigits :
           createEstimate(7, << good >>, Undefined, randomDigits)

NextEstimates == Tick \/ CreateNextEstimate

SpecEstimates == Init /\ [][NextEstimates]_vars

----------------------------------------------------------------------------
(* A busy day of invoicing.  The store holds jobs that went through the      *)
(* workflow before: job i was estimated, approved, started and completed on  *)
(* an earlier day (26 estimates a day, lettered A to Z); the first n of them *)
(* were invoiced today, one after the other, the others wait for their       *)
(* invoice.                                                                  *)

MaxWaiting == 2

InvoicedCounts == { 0, 1, 9, 10, 99, 100, 998, 999 }

PastJobRow(i, status) ==
    LET date == CivilDate(0 - (1 + (i - 1) \div 26))
        d == << date.year, date.month, date.day >>
        invoiced == status = "Invoiced"
    IN  [ customerId     |-> 7,
          estimateNumber |-> datePrefixOf(date) \o << "T" >> \o NumToString(100) \o
                             << fromCharCode(65 + ((i - 1) % 26)) >>,
          invoiceNumber  |-> IF invoiced
                             THEN datePrefixOf(CivilDate(0)) \o padStart(NumToString(i), 3, "0")
                             ELSE NoNumber,
          estimateDate   |-> d,
          approvalDate   |-> d,
          startDate      |-> d,
          completionDate |-> d,
          invoiceDate    |-> IF invoiced THEN IsoDate(0) ELSE NoDate,
          paymentDate    |-> NoDate,
          status         |-> status,
          totalAmount    |-> toFixed2(good.amount),
          notes          |-> NULL ]

\* the store with n jobs invoiced today and w jobs completed
InitStore(n, w) ==
    /\ jobs = [ i \in 1..(n + w) |->
                  PastJobRow(i, IF i <= n THEN "Invoiced" ELSE "Completed") ]
    /\ lineItems = UNION { itemRows(i, << good >>) : i \in 1..(n + w) }
    /\ nextId = n + w + 1
    /\ now = 0
    /\ tzOffset \in TzOffsets
    /\ calls = <<>>

InitInvoices == \E n \in InvoicedCounts : InitStore(n, MaxWaiting)

CreateNextInvoice ==
    \E id \in DOMAIN jobs : jobs[id].status = "Completed" /\ createInvoice(id)

NextInvoices == Tick \/ CreateNextInvoice

SpecInvoices == InitInvoices /\ [][NextInvoices]_vars

----------------------------------------------------------------------------
(* Aging of an invoice: one completed job is invoiced and paid while more    *)
(* than a month passes                                                       *)

MaxAgingDays == 32

TickAging ==
    /\ now < MaxAgingDays * TicksPerDay
    /\ now' = now + 1
    /\ UNCHANGED << jobs, lineItems, nextId, tzOffset, calls >>

PayInvoice == \E id \in DOMAIN jobs : recordPayment(id, NoDate)

InitAging == InitStore(0, 1)

NextAging == TickAging \/ CreateNextInvoice \/ PayInvoice

SpecAging == InitAging /\ [][NextAging]_vars

----------------------------------------------------------------------------
(* Concurrent use.  Up to MaxCalls calls of createInvoice and createEstimate *)
(* are started on a store with MaxWaiting completed jobs; each call runs     *)
(* from one await on the database to the next in one step.                   *)

MaxCalls == 2

\* a call that has not returned
Pending == [ success |-> FALSE, error |-> << "pending" >> ]

\* a call record: pc is the next statement that awaits the database, number
\* the local variable estimateNumber / invoiceNumber, jobId the row worked on
NewCall(op, pc, jobId, items, randomDigits) ==
    [ op |-> op, pc |-> pc, jobId |-> jobId, items |-> items,
      randomDigits |-> randomDigits, number |-> NoNumber, result |-> Pending ]

Return(c, result) == [ calls EXCEPT ![c].pc = "done", ![c].result = result ]

\* createInvoice(jobId) is called
CallCreateInvoice ==
    /\ Len(calls) < MaxCalls
    /\ \E jobId \in DOMAIN jobs :
         calls' = Append(calls, NewCall("createInvoice", "select", jobId, <<>>, 0))
    /\ UNCHANGED << jobs, lineItems, nextId, now, tzOffset >>

\* const [job] = await db.select().from(jobs).where(eq(jobs.id, jobId)), and
\* the two tests of the row
CreateInvoiceSelect(c) ==
    /\ calls[c].op = "createInvoice" /\ calls[c].pc = "select"
    /\ calls' = IF createInvoiceResult(calls[c].jobId).success
                THEN [ calls EXCEPT ![c].pc = "generate" ]
                ELSE Return(c, createInvoiceResult(calls[c].jobId))
    /\ UNCHANGED << jobs, lineItems, nextId, now, tzOffset >>

\* const invoiceNumber = await generateInvoiceNumber()
CreateInvoiceGenerate(c) ==
    /\ calls[c].op = "createInvoice" /\ calls[c].pc = "generate"
    /\ calls' = [ calls EXCEPT ![c].pc = "update", ![c].number = generateInvoiceNumber ]
    /\ UNCHANGED << jobs, lineItems, nextId, now, tzOffset >>

\* await db.update(jobs).set({ status, invoiceNumber, ... }).where(eq(jobs.id, jobId)):
\* no constraint of the jobs table refuses an invoice number
CreateInvoiceUpdate(c) ==
    /\ calls[c].op = "createInvoice" /\ calls[c].pc = "update"
    /\ jobs' = [ i \in DOMAIN jobs |->
                   IF i = calls[c].jobId
                   THEN SetColumns(jobs[i], createInvoiceSet(calls[c].number))
                   ELSE jobs[i] ]
    /\ calls' = Return(c, Ok)
    /\ UNCHANGED << lineItems, nextId, now, tzOffset >>

\* createEstimate(data) is called with a list that passes the validation
CallCreateEstimate ==
    /\ Len(calls) < MaxCalls
    /\ \E randomDigits \in RandomDigits :
         calls' = Append(calls, NewCall("createEstimate", "generate", 0, << good >>, randomDigits))
    /\ UNCHANGED << jobs, lineItems, nextId, now, tzOffset >>

\* const estimateNumber = await generateEstimateNumber()
CreateEstimateGenerate(c) ==
    /\ calls[c].op = "createEstimate" /\ calls[c].pc = "generate"
    /\ calls' = [ calls EXCEPT ![c].pc = "insertJob",
                                ![c].number = generateEstimateNumber(calls[c].randomDigits) ]
    /\ UNCHANGED << jobs, lineItems, nextId, now, tzOffset >>

\* const [newJob] = await db.insert(jobs).values({...}).returning(): the unique
\* constraint of estimate_number makes the insert throw, and the catch returns
CreateEstimateInsertJob(c) ==
    /\ calls[c].op = "createEstimate" /\ calls[c].pc = "insertJob"
    /\ IF \E id \in DOMAIN jobs : jobs[id].estimateNumber = calls[c].number
       THEN /\ calls' = Return(c, Failure(<< "Failed to create estimate" >>))
            /\ UNCHANGED << jobs, lineItems, nextId, now, tzOffset >>
       ELSE /\ jobs' = jobs @@ (nextId :> newJobRow(7, calls[c].number,
                                                     reduceAmounts(calls[c].items), Undefined))
            /\ nextId' = nextId + 1
            /\ calls' = [ calls EXCEPT ![c].pc = "insertItems", ![c].jobId = nextId ]
            /\ UNCHANGED << lineItems, now, tzOffset >>

\* await db.insert(lineItems).values(lineItemsToInsert), and the return
CreateEstimateInsertItems(c) ==
    /\ calls[c].op = "createEstimate" /\ calls[c].pc = "insertItems"
    /\ lineItems' = lineItems \cup itemRows(calls[c].jobId, calls[c].items)
    /\ calls' = Return(c, Ok)
    /\ UNCHANGED << jobs, nextId, now, tzOffset >>

InitConcurrent == InitStore(0, MaxWaiting)

NextConcurrent ==
    \/ Tick
    \/ CallCreateInvoice
    \/ CallCreateEstimate
    \/ \E c \in DOMAIN calls :
         \/ CreateInvoiceSelect(c)
         \/ CreateInvoiceGenerate(c)
         \/ CreateInvoiceUpdate(c)
         \/ CreateEstimateGenerate(c)
         \/ CreateEstimateInsertJob(c)
         \/ CreateEstimateInsertItems(c)

SpecConcurrent == InitConcurrent /\ [][NextConcurrent]_vars

----------------------------------------------------------------------------
(* Properties *)

\* position of a status in the fixed order, from 0
Pos(status) == IndexOf(JOB_STATUSES, status)

EstimateStatuses == { "Estimate Created", "Estimate Sent" }

\* the UTC calendar day of the clock
Today == LET c == CivilDate(now \div TicksPerDay) IN << c.year, c.month, c.day >>

\* the jobs present before and after a step
Kept == DOMAIN jobs \cap DOMAIN jobs'

\* C1: every change of a job's stored status goes from position i to position
\* i + 1 of the fixed order; the only exception is a step of approveEstimate
\* from Estimate Created to Approved.  No step moves a status backward.
C1_LinearProgression ==
    [][ \A id \in Kept :
          jobs'[id].status # jobs[id].status =>
            \/ Pos(jobs'[id].status) = Pos(jobs[id].status) + 1
            \/ /\ jobs[id].status = "Estimate Created"
               /\ jobs'[id].status = "Approved"
               /\ approveEstimate(id) ]_vars

\* a job has gone through the whole order
C1_Witness == \E id \in DOMAIN jobs : jobs[id].status = "Paid"

\* the six pairs (S, immediate successor of S)
SuccessorPairs ==
    { << "Estimate Created", "Estimate Sent" >>, << "Estimate Sent", "Approved" >>,
      << "Approved", "In Progress" >>, << "In Progress", "Completed" >>,
      << "Completed", "Invoiced" >>, << "Invoiced", "Paid" >> }

\* C2: for all 49 pairs (S, S2) of statuses canTransitionTo(S, S2) is true
\* exactly when S2 is the immediate successor of S; and so, for every stored job
\* and every requested status, updateJobStatus is let through by the check
\* exactly when the requested status is the successor of the stored one.
C2_CanTransitionIffSuccessor ==
    /\ \A s \in Statuses, t \in Statuses :
         canTransitionTo(s, t) <=> << s, t >> \in SuccessorPairs
    /\ \A id \in DOMAIN jobs, t \in Statuses :
         updateJobStatusResult(id, t).success <=> << jobs[id].status, t >> \in SuccessorPairs

\* a stored job in the last status, from which every target is refused
C2_Witness ==
    \E id \in DOMAIN jobs :
        /\ jobs[id].status = "Paid"
        /\ \A t \in Statuses : ~updateJobStatusResult(id, t).success

\* C3: once a job's status is Paid, every step leaves the job in the store
\* with status Paid.
C3_PaidIsTerminal ==
    [][ \A id \in DOMAIN jobs :
          jobs[id].status = "Paid" =>
            id \in DOMAIN jobs' /\ jobs'[id].status = "Paid" ]_vars

\* a Paid job whose notes were edited afterwards by updateJobNotes
C3_Witness ==
    \E id \in DOMAIN jobs :
        /\ jobs[id].status = "Paid"
        /\ jobs[id].paymentDate # Today
        /\ jobs[id].notes # NULL

\* C4: in every reachable store state a job's invoiceNumber is non-null exactly
\* when its status is Invoiced or Paid.
C4_InvoiceNumberIffInvoiced ==
    \A id \in DOMAIN jobs :
        jobs[id].invoiceNumber # NoNumber <=> jobs[id].status \in { "Invoiced", "Paid" }

MilestoneStatus ==
    [ approvalDate   |-> "Approved",
      startDate      |-> "In Progress",
      completionDate |-> "Completed",
      invoiceDate    |-> "Invoiced",
      paymentDate    |-> "Paid" ]

DateColumns == { "estimateDate" } \cup DOMAIN MilestoneStatus

\* C6: each milestone date is null exactly until the job has entered the
\* corresponding status; a date that is set is never changed or cleared by a
\* later step; estimateDate is set from creation on; the step into Estimate
\* Sent changes no date column.
C6_DateStampMonotonicity ==
    /\ [] \A id \in DOMAIN jobs :
            /\ jobs[id].estimateDate # NoDate
            /\ \A f \in DOMAIN MilestoneStatus :
                 jobs[id][f] # NoDate <=> Pos(jobs[id].status) >= Pos(MilestoneStatus[f])
    /\ [][ \A id \in Kept :
             /\ \A f \in DateColumns :
                  jobs[id][f] # NoDate => jobs'[id][f] = jobs[id][f]
             /\ jobs'[id].status = "Estimate Sent" =>
                  \A f \in DateColumns : jobs'[id][f] = jobs[id][f] ]_vars

\* a Paid job: every milestone is stamped, and not all on one day
C6_Witness ==
    \E id \in DOMAIN jobs :
        /\ jobs[id].status = "Paid"
        /\ \A f \in DateColumns : jobs[id][f] # NoDate
        /\ jobs[id].estimateDate # jobs[id].invoiceDate

\* the sum of the stored amounts of a set of line_items rows
RECURSIVE SumRows(_)
SumRows(rows) ==
    IF rows = {} THEN 0
    ELSE LET r == CHOOSE x \in rows : TRUE IN r.amount + SumRows(rows \ { r })

\* C7: the stored totalAmount of every job equals the sum of the stored
\* amounts of its line items.
C7_TotalConsistency ==
    \A id \in DOMAIN jobs : jobs[id].totalAmount = SumRows(itemsOf(id))

\* C8: a job whose status is Approved or later is never removed; deleteEstimate
\* on it returns a failure and leaves the job and its line items as they are;
\* on a job in Estimate Created or Estimate Sent it succeeds and removes the
\* job and all of its line items.
C8_DeleteOnlyEstimates ==
    /\ [] \A id \in DOMAIN jobs :
            deleteEstimateResult(id).success <=> jobs[id].status \in EstimateStatuses
    /\ [][ \A id \in DOMAIN jobs :
             /\ jobs[id].status \notin EstimateStatuses => id \in DOMAIN jobs'
             /\ (jobs[id].status \notin EstimateStatuses /\ deleteEstimate(id)) =>
                  UNCHANGED << jobs, lineItems >>
             /\ (jobs[id].status \in EstimateStatuses /\ deleteEstimate(id)) =>
                  /\ id \notin DOMAIN jobs'
                  /\ \A r \in lineItems' : r.jobId # id
                  /\ \A k \in DOMAIN jobs \ { id } : k \in DOMAIN jobs' /\ jobs'[k] = jobs[k] ]_vars

\* an approved job, with its line items, on which deleteEstimate fails
C8_Witness ==
    \E id \in DOMAIN jobs :
        /\ jobs[id].status = "Approved"
        /\ itemsOf(id) # {}
        /\ ~deleteEstimateResult(id).success

\* C9: canEditJob is true exactly for Estimate Created and Estimate Sent;
\* updateEstimate on a job in any other status returns a failure and leaves
\* the store as it is; so no step changes the line items or the totalAmount of
\* a job whose status is Approved or later.
C9_NoEditAfterApproval ==
    /\ [] /\ \A s \in Statuses : canEditJob(s) <=> s \in EstimateStatuses
          /\ \A id \in DOMAIN jobs, items \in ItemListInputs, notes \in NotesInputs :
               jobs[id].status \notin EstimateStatuses =>
                 /\ ~updateEstimateResult(id, TRUE, items, notes).success
                 /\ ~updateEstimateResult(id, FALSE, items, notes).success
    /\ [][ \A id \in DOMAIN jobs :
             jobs[id].status \notin EstimateStatuses =>
               /\ id \in DOMAIN jobs'
               /\ jobs'[id].totalAmount = jobs[id].totalAmount
               /\ { r \in lineItems' : r.jobId = id } = itemsOf(id)
               /\ \/ UNCHANGED << jobs, lineItems >>
                  \/ \A hasItems \in BOOLEAN, items \in ItemListInputs, notes \in NotesInputs :
                       ~updateEstimate(id, hasItems, items, notes) ]_vars

\* a job past approval whose items had been replaced while it was an estimate,
\* and on which updateEstimate now fails
C9_Witness ==
    \E id \in DOMAIN jobs :
        /\ jobs[id].status = "In Progress"
        /\ Cardinality(itemsOf(id)) = 2
        /\ jobs[id].notes # NULL
        /\ ~updateEstimateResult(id, TRUE, << good >>, "").success

\* C10: approveEstimate succeeds exactly when the job's status is Estimate
\* Created or Estimate Sent; a successful call sets status to Approved and
\* approvalDate to today and leaves every other column, every line item and
\* every other job as it was; a failing call changes nothing.
C10_ApproveEstimate ==
    /\ [] \A id \in DOMAIN jobs :
            approveEstimateResult(id).success <=> jobs[id].status \in EstimateStatuses
    /\ [][ \A id \in DOMAIN jobs :
             approveEstimate(id) =>
               IF jobs[id].status \in EstimateStatuses
               THEN /\ jobs' = [ jobs EXCEPT ![id] =
                                   [ @ EXCEPT !.status = "Approved", !.approvalDate = Today ] ]
                    /\ lineItems' = lineItems
               ELSE UNCHANGED << jobs, lineItems >> ]_vars

\* a job approved on a later day than the day of its estimate
C10_Witness ==
    \E id \in DOMAIN jobs :
        /\ jobs[id].status = "Approved"
        /\ jobs[id].approvalDate = Today
        /\ jobs[id].estimateDate # Today

\* a failure message names the status s
Names(error, s) == \E i \in 1..Len(error) : error[i] = s

\* C11: for every stored job and every requested status that is not the
\* immediate successor of its status, updateJobStatus (hence startJob on a job
\* not Approved and completeJob on a job not In Progress) returns a failure
\* whose message names the current and the requested status, and the call
\* leaves the job - status, dates, identifiers - as it was.
C11_IllegalTransitionFails ==
    /\ [] \A id \in DOMAIN jobs, t \in Statuses :
            << jobs[id].status, t >> \notin SuccessorPairs =>
              LET r == updateJobStatusResult(id, t)
              IN  /\ ~r.success
                  /\ Names(r.error, jobs[id].status)
                  /\ Names(r.error, t)
    /\ [][ \/ UNCHANGED << jobs, lineItems >>
           \/ \A id \in DOMAIN jobs :
                /\ \A t \in Statuses :
                     << jobs[id].status, t >> \notin SuccessorPairs => ~updateJobStatus(id, t)
                /\ jobs[id].status # "Approved" => ~startJob(id)
                /\ jobs[id].status # "In Progress" => ~completeJob(id) ]_vars

\* startJob on a job in Estimate Created fails and names both statuses
C11_Witness ==
    \E id \in DOMAIN jobs :
        LET r == updateJobStatusResult(id, "In Progress")
        IN  /\ jobs[id].status = "Estimate Created"
            /\ ~r.success
            /\ Names(r.error, "Estimate Created")
            /\ Names(r.error, "In Progress")

\* C12: createInvoice succeeds exactly when the job's status is Completed; a
\* successful call sets, in one update, status to Invoiced, invoiceNumber to
\* the number the generator mints (a number no stored job carries) and
\* invoiceDate to today; a call on a job in any other status fails and leaves
\* the job as it was.
C12_CreateInvoice ==
    /\ [] \A id \in DOMAIN jobs :
            createInvoiceResult(id).success <=> jobs[id].status = "Completed"
    /\ [][ \A id \in DOMAIN jobs :
             createInvoice(id) =>
               IF jobs[id].status = "Completed"
               THEN /\ jobs'[id].status = "Invoiced"
                    /\ jobs'[id].invoiceNumber = generateInvoiceNumber
                    /\ jobs'[id].invoiceNumber # NoNumber
                    /\ \A k \in DOMAIN jobs : jobs[k].invoiceNumber # jobs'[id].invoiceNumber
                    /\ jobs'[id].invoiceDate = Today
               ELSE jobs'[id] = jobs[id] ]_vars

\* a job invoiced on a later day than its estimate, on which a second
\* createInvoice fails
C12_Witness ==
    \E id \in DOMAIN jobs :
        /\ jobs[id].status = "Invoiced"
        /\ Len(jobs[id].invoiceNumber) = 9
        /\ jobs[id].invoiceDate = Today
        /\ jobs[id].estimateDate # Today
        /\ ~createInvoiceResult(id).success

\* C13: recordPayment succeeds exactly when the job's status is Invoiced; a
\* successful call sets status to Paid and paymentDate to the supplied date,
\* or to today when none is supplied; a call on a job in any other status
\* fails and leaves the job as it was; so the paymentDate of a Paid job is
\* never changed again.
C13_RecordPayment ==
    /\ [] \A id \in DOMAIN jobs, d \in PaymentDateInputs :
            recordPaymentResult(id, d).success <=> jobs[id].status = "Invoiced"
    /\ [][ \A id \in DOMAIN jobs :
             /\ \A d \in PaymentDateInputs :
                  recordPayment(id, d) =>
                    IF jobs[id].status = "Invoiced"
                    THEN /\ jobs'[id].status = "Paid"
                         /\ jobs'[id].paymentDate = IF d # NoDate THEN d ELSE Today
                    ELSE jobs'[id] = jobs[id]
             /\ jobs[id].status = "Paid" =>
                  id \in DOMAIN jobs' /\ jobs'[id].paymentDate = jobs[id].paymentDate ]_vars

\* a job paid with a supplied date, on which a second recordPayment (which
\* would stamp today) fails
C13_Witness ==
    \E id \in DOMAIN jobs :
        /\ jobs[id].status = "Paid"
        /\ jobs[id].paymentDate = IsoDate(0 - TicksPerDay)
        /\ jobs[id].paymentDate # Today
        /\ ~recordPaymentResult(id, NoDate).success

\* the lists the claim says are refused: empty, or with an item whose action
\* or description is empty once trimmed, or whose amount is negative
Refused(items) ==
    \/ Len(items) = 0
    \/ \E i \in 1..Len(items) :
         \/ trim(items[i].action) = ""
         \/ trim(items[i].description) = ""
         \/ items[i].amount < 0

\* the store refuses the insert: unknown customer, or estimate number taken
StoreRefuses(customerId, randomDigits) ==
    \/ customerId \notin Customers
    \/ \E id \in DOMAIN jobs : jobs[id].estimateNumber = generateEstimateNumber(randomDigits)

\* x hundredths is the amount of y thousandths rounded to two decimals
Rounds(x, y) == 10 * x - 5 <= y /\ y < 10 * x + 5

\* a step stored exactly one new job, built from items, as the claim says,
\* with the given relation between the stored total and the sum of the amounts
StoredNewJob(items, randomDigits, TotalIs(_, _)) ==
    \E id \in DOMAIN jobs' \ DOMAIN jobs :
        /\ DOMAIN jobs' = DOMAIN jobs \cup { id }
        /\ \A k \in DOMAIN jobs : jobs'[k] = jobs[k]
        /\ jobs'[id].status = "Estimate Created"
        /\ jobs'[id].estimateDate = Today
        /\ jobs'[id].estimateNumber = generateEstimateNumber(randomDigits)
        /\ TotalIs(jobs'[id].totalAmount, reduceAmounts(items))
        /\ \E rows \in [ 1..Len(items) -> lineItems' \ lineItems ] :
             /\ lineItems' = lineItems \cup { rows[i] : i \in 1..Len(items) }
             /\ \A i \in 1..Len(items) :
                  /\ rows[i].jobId = id
                  /\ rows[i].itemNumber = i
                  /\ rows[i].action = trim(items[i].action)
                  /\ rows[i].description = trim(items[i].description)
                  /\ Rounds(rows[i].amount, items[i].amount)

CreateEstimateInputs ==
    CustomerInputs \X (ItemListInputs \cup RefusedItemLists) \X NotesInputs \X RandomDigits

ExactTotal(x, y) == 100 * y = 1000 * x

C15_EstimateNumberWellFormed ==
    /\ \A randomDigits \in RandomDigits :
         LET p == parseEstimateNumber(generateEstimateNumber(randomDigits))
         IN  /\ p.match
             /\ p.year = LocalDate.year /\ p.month = LocalDate.month /\ p.day = LocalDate.day
             /\ parseInt(p.random) \in 100..999
             /\ p.sequence \in UpperCase
    /\ \A id \in DOMAIN jobs : parseEstimateNumber(jobs[id].estimateNumber).match

\* the stored invoice numbers that start with the prefix of a date
InvoiceNumbersOf(date) ==
    { jobs[id].invoiceNumber : id \in { k \in DOMAIN jobs : like(jobs[k].invoiceNumber, date) } }

\* C16: calls made one at a time.  The k-th successful createInvoice of a day
\* receives that day's YYMMDD followed by k as exactly three zero-padded
\* digits, for every k >= 1: every stored invoice number has exactly nine
\* digits, and each createInvoice stores the sequence k that follows the k - 1
\* invoice numbers of the day, larger than each of them.
C16_InvoiceNumbersSequential ==
    /\ [] \A id \in DOMAIN jobs :
            jobs[id].invoiceNumber # NoNumber =>
              /\ parseInvoiceNumber(jobs[id].invoiceNumber).match
              /\ Len(jobs[id].invoiceNumber) = 9
    /\ [][ \A id \in DOMAIN jobs :
             (jobs[id].status = "Completed" /\ createInvoice(id)) =>
               LET number == jobs'[id].invoiceNumber
                   k == Cardinality(InvoiceNumbersOf(datePrefix)) + 1
               IN  /\ SubSeq(number, 1, 6) = datePrefix
                   /\ SubSeq(number, 7, Len(number)) = padStart(NumToString(k), 3, "0")
                   /\ Len(number) = 9
                   /\ \A other \in InvoiceNumbersOf(datePrefix) :
                        parseInt(SubSeq(other, 7, Len(other))) <
                          parseInt(SubSeq(number, 7, Len(number))) ]_vars

\* C17: under every interleaving of createInvoice calls on different
\* completed jobs, no store state holds two jobs with the same non-null
\* invoiceNumber.
C17_InvoiceNumbersUnique ==
    \A a \in DOMAIN jobs, b \in DOMAIN jobs :
        (a # b /\ jobs[a].invoiceNumber # NoNumber) =>
          jobs[a].invoiceNumber # jobs[b].invoiceNumber

\* C18: a call of createEstimate whose insert the store refuses because the
\* minted estimate number is already stored mints a new number and tries
\* again (no call reaches the insert a second time here, so the refusal is
\* its first and the bound on the attempts is not yet reached): it does not
\* return.
C18_ConflictIsRetried ==
    [][ \A c \in DOMAIN calls :
          ( /\ calls[c].op = "createEstimate"
            /\ calls[c].pc = "insertJob"
            /\ \E id \in DOMAIN jobs : jobs[id].estimateNumber = calls[c].number
            /\ calls'[c] # calls[c] ) =>
              calls'[c].pc = "generate" ]_vars

\* the whole days from the date to now: the k for which the clock showed the
\* date k days ago
DaysSince(date) ==
    CHOOSE k \in 0..(MaxAgingDays + 1) : IsoDate(now - k * TicksPerDay) = date

\* rows that agree with the job on status and invoiceDate and on nothing else
Lookalikes(job) ==
    { [ job EXCEPT !.notes = "x", !.totalAmount = 0, !.customerId = 0 ],
      [ job EXCEPT !.estimateDate = job.invoiceDate, !.paymentDate = job.invoiceDate,
                   !.invoiceNumber = NoNumber ] }

\* C19: for every stored job and every time, calculateOverdueStatus returns
\* isOverdue = false and daysOverdue = 0 when the status is Paid or invoiceDate
\* is null; otherwise, with d the whole days from invoiceDate to now,
\* isOverdue = (d > 30) and daysOverdue = d - 30 when overdue, else 0 (31 days:
\* overdue by 1; 30 days: not overdue).  isOverdue holds exactly when
\* daysOverdue >= 1, and rows with the same status and invoiceDate get the
\* same result.
C19_AgingCalculator ==
    \A id \in DOMAIN jobs :
        LET job == jobs[id]
            r == calculateOverdueStatus(job)
        IN  /\ IF job.status = "Paid" \/ job.invoiceDate = NoDate
               THEN r = [ isOverdue |-> FALSE, daysOverdue |-> 0 ]
               ELSE LET d == DaysSince(job.invoiceDate)
                    IN  /\ r.isOverdue = (d > 30)
                        /\ r.daysOverdue = IF d > 30 THEN d - 30 ELSE 0
                        /\ d = 31 => r = [ isOverdue |-> TRUE, daysOverdue |-> 1 ]
                        /\ d = 30 => r = [ isOverdue |-> FALSE, daysOverdue |-> 0 ]
            /\ r.isOverdue <=> r.daysOverdue >= 1
            /\ \A other \in Lookalikes(job) : calculateOverdueStatus(other) = r

\* an unpaid invoice, 31 days after its invoice date: overdue by one day
C19_Witness ==
    \E id \in DOMAIN jobs :
        /\ jobs[id].status = "Invoiced"
        /\ DaysSince(jobs[id].invoiceDate) = 31
        /\ calculateOverdueStatus(jobs[id]) = [ isOverdue |-> TRUE, daysOverdue |-> 1 ]

\* C20: once a job is Paid no step changes its notes, and every operation
\* that edits notes - updateInvoiceNotes, updateJobNotes, updateEstimate with
\* notes - returns a failure when called on a Paid job.
C20_PaidNotesFrozen ==
    /\ [][ \A id \in DOMAIN jobs :
             jobs[id].status = "Paid" =>
               id \in DOMAIN jobs' /\ jobs'[id].notes = jobs[id].notes ]_vars
    /\ [] \A id \in DOMAIN jobs, notes \in NotesStrings :
            jobs[id].status = "Paid" =>
              /\ ~updateInvoiceNotesResult(id, notes).success
              /\ ~updateJobNotesResult(id, notes).success
              /\ ~updateEstimateResult(id, FALSE, <<>>, notes).success

\* ids that no stored job has
AbsentIds == (1..(MaxJobs + 1)) \ DOMAIN jobs

\* a result that is a failure with a message
IsFailure(r) == ~r.success /\ Len(r.error) > 0

\* C21: every mutating operation that takes a job id, called with an id that
\* no stored job has, returns success = false with an error message and
\* leaves the store as it is.
C21_NotFoundFails ==
    /\ [] \A id \in AbsentIds, notes \in NotesStrings :
            /\ IsFailure(updateEstimateResult(id, TRUE, << good >>, notes))
            /\ IsFailure(deleteEstimateResult(id))
            /\ IsFailure(markEstimateAsSentResult(id))
            /\ IsFailure(approveEstimateResult(id))
            /\ \A newStatus \in Statuses : IsFailure(updateJobStatusResult(id, newStatus))
            /\ IsFailure(createInvoiceResult(id))
            /\ \A paymentDate \in PaymentDateInputs : IsFailure(recordPaymentResult(id, paymentDate))
            /\ IsFailure(updateInvoiceNotesResult(id, notes))
            /\ IsFailure(updateJobNotesResult(id, notes))
    /\ [][ \/ UNCHANGED << jobs, lineItems, nextId >>
           \/ \A id \in AbsentIds :
                /\ ~deleteEstimate(id) /\ ~markEstimateAsSent(id) /\ ~approveEstimate(id)
                /\ ~startJob(id) /\ ~completeJob(id) /\ ~createInvoice(id)
                /\ \A newStatus \in Statuses : ~updateJobStatus(id, newStatus)
                /\ \A paymentDate \in PaymentDateInputs : ~recordPayment(id, paymentDate)
                /\ \A notes \in NotesStrings :
                     /\ ~updateJobNotes(id, notes)
                     /\ ~updateInvoiceNotes(id, notes)
                     /\ ~updateEstimate(id, FALSE, <<>>, notes) ]_vars


----------------------------------------------------------------------------
(* Editing: estimates are created and then edited with every item list, the  *)
(* lists that createEstimate refuses included                                *)

MaxEdited == 2

CreateEditable ==
    /\ nextId <= MaxEdited
    /\ \E items \in ItemListInputs \cup RefusedItemLists, randomDigits \in RandomDigits :
           createEstimate(7, items, Undefined, randomDigits)

EditAnyEstimate ==
    \E id \in DOMAIN jobs, items \in ItemListInputs \cup RefusedItemLists :
        updateEstimate(id, TRUE, items, Undefined)

NextEdit == Tick \/ CreateEditable \/ EditAnyEstimate

SpecEdit == Init /\ [][NextEdit]_vars

\* C22: every stored line item has an amount of at least 0 and a non-empty
\* action and description, whatever createEstimate and updateEstimate were
\* given: neither stores an item list with a negative amount or with an
\* empty action or description.
C22_LineItemsValid ==
    /\ [] \A r \in lineItems : r.amount >= 0 /\ r.action # "" /\ r.description # ""
    /\ [] \A id \in DOMAIN jobs, items \in RefusedItemLists :
            ~updateEstimateResult(id, TRUE, items, Undefined).success


\* the item lists an estimate is edited with
EditLists == ItemListInputs \cup RefusedItemLists

\* the stored rows of job id after the step are the items, in their order
RowsAre(id, items) ==
    \E rows \in [ 1..Len(items) -> lineItems' ] :
        /\ { r \in lineItems' : r.jobId = id } = { rows[i] : i \in 1..Len(items) }
        /\ \A i \in 1..Len(items) :
             /\ rows[i].itemNumber = i
             /\ rows[i].action = trim(items[i].action)
             /\ rows[i].description = trim(items[i].description)
             /\ Rounds(rows[i].amount, items[i].amount)

C26_InvoiceNumberAssignedOnce ==
    /\ [] \A c, d \in DOMAIN calls :
            /\ c # d
            /\ calls[c].op = "createInvoice" /\ calls[d].op = "createInvoice"
            /\ calls[c].jobId = calls[d].jobId
            => ~(calls[c].result.success /\ calls[d].result.success)
    /\ [][ \A id \in Kept :
             jobs[id].invoiceNumber # NoNumber =>
               jobs'[id].invoiceNumber = jobs[id].invoiceNumber ]_vars


----------------------------------------------------------------------------
(* Overlapping status changes.  Up to MaxCalls calls of markEstimateAsSent,  *)
(* approveEstimate and updateJobStatus are started on a store with one new   *)
(* estimate; each call is a select and, later, an update                     *)

\* a job row in status Estimate Created, with its estimate date only
EstimateRow(i) ==
    [ PastJobRow(i, "Estimate Created") EXCEPT
        !.approvalDate = NoDate, !.startDate = NoDate, !.completionDate = NoDate ]

\* the store with w estimates, one item each
InitEstimates(w) ==
    /\ jobs = [ i \in 1..w |-> EstimateRow(i) ]
    /\ lineItems = UNION { itemRows(i, << good >>) : i \in 1..w }
    /\ nextId = w + 1
    /\ now = 0
    /\ tzOffset \in TzOffsets
    /\ calls = <<>>

\* markEstimateAsSent(id), approveEstimate(id) or updateJobStatus(id, newStatus)
\* is called
CallStatusChange ==
    /\ Len(calls) < MaxCalls
    /\ \E jobId \in DOMAIN jobs :
         \/ \E op \in { "markEstimateAsSent", "approveEstimate" } :
              calls' = Append(calls, NewCall(op, "select", jobId, <<>>, 0) @@
                                     [ newStatus |-> NULL ])
         \/ \E newStatus \in Statuses :
              calls' = Append(calls, NewCall("updateJobStatus", "select", jobId, <<>>, 0) @@
                                     [ newStatus |-> newStatus ])
    /\ UNCHANGED << jobs, lineItems, nextId, now, tzOffset >>

\* what the call returns right after its select, Ok when it goes on to update
selectResult(call) ==
    IF call.op = "markEstimateAsSent" THEN markEstimateAsSentResult(call.jobId)
    ELSE IF call.op = "approveEstimate" THEN approveEstimateResult(call.jobId)
    ELSE updateJobStatusResult(call.jobId, call.newStatus)

\* the columns the update of the call sets
statusSet(call) ==
    IF call.op = "markEstimateAsSent" THEN "status" :> "Estimate Sent"
    ELSE IF call.op = "approveEstimate" THEN approveEstimateSet
    ELSE getStatusDateUpdates(call.newStatus) @@ ("status" :> call.newStatus)

\* const [job] = await db.select().from(jobs).where(eq(jobs.id, id)), and the
\* tests of the row
StatusSelect(c) ==
    /\ calls[c].op \in { "markEstimateAsSent", "approveEstimate", "updateJobStatus" }
    /\ calls[c].pc = "select"
    /\ calls' = IF selectResult(calls[c]).success
                THEN [ calls EXCEPT ![c].pc = "update" ]
                ELSE Return(c, selectResult(calls[c]))
    /\ UNCHANGED << jobs, lineItems, nextId, now, tzOffset >>

\* await db.update(jobs).set({ status, ... }).where(eq(jobs.id, id))
StatusUpdate(c) ==
    /\ calls[c].op \in { "markEstimateAsSent", "approveEstimate", "updateJobStatus" }
    /\ calls[c].pc = "update"
    /\ jobs' = [ i \in DOMAIN jobs |->
                   IF i = calls[c].jobId
                   THEN SetColumns(jobs[i], statusSet(calls[c]))
                   ELSE jobs[i] ]
    /\ calls' = Return(c, Ok)
    /\ UNCHANGED << lineItems, nextId, now, tzOffset >>

InitStatus == InitEstimates(1)

NextStatus ==
    \/ Tick
    \/ CallStatusChange
    \/ \E c \in DOMAIN calls : StatusSelect(c) \/ StatusUpdate(c)

SpecStatus == InitStatus /\ [][NextStatus]_vars

\* C25: the status of a job never moves backward in the fixed order when two
\* status-changing operations on the job overlap, each reading the status
\* and writing it in separate steps.
C25_NoRegressionWhenOverlapping ==
    [][ \A id \in Kept : Pos(jobs'[id].status) >= Pos(jobs[id].status) ]_vars


----------------------------------------------------------------------------
(* Editing step by step.  Up to MaxCalls calls of updateEstimate are started *)
(* on a store with one estimate; each call runs from one await on the        *)
(* database to the next in one step, and a statement sent to the database    *)
(* can throw                                                                 *)

\* the item lists the estimate is edited with
StepwiseLists == { <<>>, << good, good >> }

\* updateEstimate(id, { lineItems }) is called
CallUpdateEstimate ==
    /\ Len(calls) < MaxCalls
    /\ \E jobId \in DOMAIN jobs, items \in StepwiseLists :
         calls' = Append(calls, NewCall("updateEstimate", "select", jobId, items, 0))
    /\ UNCHANGED << jobs, lineItems, nextId, now, tzOffset >>

\* const [job] = await db.select().from(jobs).where(eq(jobs.id, id)), and the
\* tests of the row and of the list
UpdateEstimateSelect(c) ==
    LET result == updateEstimateResult(calls[c].jobId, TRUE, calls[c].items, Undefined)
    IN  /\ calls[c].op = "updateEstimate" /\ calls[c].pc = "select"
        /\ calls' = IF result.success
                    THEN [ calls EXCEPT ![c].pc = "delete" ]
                    ELSE Return(c, result)
        /\ UNCHANGED << jobs, lineItems, nextId, now, tzOffset >>

\* await db.delete(lineItems).where(eq(lineItems.jobId, id))
UpdateEstimateDelete(c) ==
    /\ calls[c].op = "updateEstimate" /\ calls[c].pc = "delete"
    /\ lineItems' = lineItems \ itemsOf(calls[c].jobId)
    /\ calls' = [ calls EXCEPT ![c].pc = "insert" ]
    /\ UNCHANGED << jobs, nextId, now, tzOffset >>

\* await db.insert(lineItems).values(lineItemsToInsert)
UpdateEstimateInsert(c) ==
    /\ calls[c].op = "updateEstimate" /\ calls[c].pc = "insert"
    /\ lineItems' = lineItems \cup itemRows(calls[c].jobId, calls[c].items)
    /\ calls' = [ calls EXCEPT ![c].pc = "update" ]
    /\ UNCHANGED << jobs, nextId, now, tzOffset >>

\* await db.update(jobs).set({ totalAmount, notes, updatedAt }), and the return
UpdateEstimateUpdate(c) ==
    /\ calls[c].op = "updateEstimate" /\ calls[c].pc = "update"
    /\ jobs' = [ i \in DOMAIN jobs |->
                   IF i = calls[c].jobId
                   THEN SetColumns(jobs[i], updateEstimateSet(jobs[i], calls[c].items, Undefined))
                   ELSE jobs[i] ]
    /\ calls' = Return(c, Ok)
    /\ UNCHANGED << lineItems, nextId, now, tzOffset >>

\* the statements that write to the database
WritingStatements == { "delete", "insert", "update", "insertJob", "insertItems" }

\* the error of the catch block of an operation
CatchError(op) ==
    IF op = "updateEstimate" THEN "Failed to update estimate" ELSE "Failed to create estimate"

\* the statement the call is at throws (the connection is lost, the database
\* refuses the statement): nothing is written and the catch block returns
StatementThrows(c) ==
    /\ calls[c].pc \in WritingStatements
    /\ calls' = Return(c, Failure(<< CatchError(calls[c].op) >>))
    /\ UNCHANGED << jobs, lineItems, nextId, now, tzOffset >>

InitStepwise == InitEstimates(1)

NextStepwise ==
    \/ Tick
    \/ CallUpdateEstimate
    \/ \E c \in DOMAIN calls :
         \/ UpdateEstimateSelect(c)
         \/ UpdateEstimateDelete(c)
         \/ UpdateEstimateInsert(c)
         \/ UpdateEstimateUpdate(c)
         \/ StatementThrows(c)

SpecStepwise == InitStepwise /\ [][NextStepwise]_vars

\* C24: the replacement of the line items is atomic with the total.  At every
\* step of an updateEstimate, and after one that a store failure ended
\* between the delete, the insert and the update of the total, a reader sees
\* a job with its complete item set and the total of that set: never a job
\* with no items, never a total that is not the sum of the items present.
C24_ReplacementAtomic ==
    [] \A id \in DOMAIN jobs :
         /\ itemsOf(id) # {}
         /\ jobs[id].totalAmount = SumRows(itemsOf(id))


----------------------------------------------------------------------------
(* Creating step by step.  Up to MaxCalls calls of createEstimate are        *)
(* started on an empty store; a statement sent to the database can throw     *)

NextFaulty ==
    \/ Tick
    \/ CallCreateEstimate
    \/ \E c \in DOMAIN calls :
         \/ CreateEstimateGenerate(c)
         \/ CreateEstimateInsertJob(c)
         \/ CreateEstimateInsertItems(c)
         \/ StatementThrows(c)

SpecFaulty == Init /\ [][NextFaulty]_vars

\* the calls have all returned
Quiet == \A c \in DOMAIN calls : calls[c].pc = "done"

\* C27: a createEstimate that fails leaves the store as it was, also when the
\* store fails on the insert of the line items after the insert of the job:
\* no job row and no item of the failed call is stored, so that no job is
\* stored with zero line items or with a total that is not the sum of its
\* items.
C27_FailedCreateStoresNothing ==
    /\ [] \A c \in DOMAIN calls :
            calls[c].op = "createEstimate" /\ calls[c].pc = "done" /\ ~calls[c].result.success
            => /\ calls[c].jobId \notin DOMAIN jobs
               /\ itemsOf(calls[c].jobId) = {}
    /\ [] (Quiet => \A id \in DOMAIN jobs :
                      /\ itemsOf(id) # {}
                      /\ jobs[id].totalAmount = SumRows(itemsOf(id)))


\* the date columns of a job in the order of the milestones
MilestoneDates ==
    << "estimateDate", "approvalDate", "startDate", "completionDate",
       "invoiceDate", "paymentDate" >>

\* C28: the milestone dates of every job are in chronological order,
\* estimateDate <= approvalDate <= startDate <= completionDate <= invoiceDate
\* <= paymentDate for the dates that are set, after every sequence of
\* operations and whatever arguments the operations accept, a paymentDate
\* given to recordPayment included.
C28_MilestoneDatesOrdered ==
    [] \A id \in DOMAIN jobs : \A i, j \in DOMAIN MilestoneDates :
         /\ i < j
         /\ jobs[id][MilestoneDates[i]] # NoDate
         /\ jobs[id][MilestoneDates[j]] # NoDate
         => getTime(jobs[id][MilestoneDates[i]]) <= getTime(jobs[id][MilestoneDates[j]])


----------------------------------------------------------------------------
(* Time zones.  The server runs at one of the offsets of ZoneOffsets from    *)
(* UTC; estimates are created and completed jobs invoiced while time passes  *)

\* the westernmost zone, UTC, and the easternmost zone
ZoneOffsets == { 0 - 12, 0, 14 }

InitZones ==
    /\ jobs = [ i \in 1..MaxWaiting |-> PastJobRow(i, "Completed") ]
    /\ lineItems = UNION { itemRows(i, << good >>) : i \in 1..MaxWaiting }
    /\ nextId = MaxWaiting + 1
    /\ now = 0
    /\ tzOffset \in ZoneOffsets
    /\ calls = <<>>

CreateZoneEstimate ==
    /\ nextId <= MaxWaiting + MaxCreated
    /\ \E randomDigits \in RandomDigits :
           createEstimate(7, << good >>, Undefined, randomDigits)

NextZones == Tick \/ CreateZoneEstimate \/ CreateNextInvoice

SpecZones == InitZones /\ [][NextZones]_vars

\* the six characters YYMMDD of a stored date
PrefixOfDate(date) == datePrefixOf([ year |-> date[1], month |-> date[2], day |-> date[3] ])

\* C29: the YYMMDD prefix of every estimateNumber is the day of the job's
\* estimateDate, and the YYMMDD prefix of every invoiceNumber minted by
\* createInvoice is the day of the job's invoiceDate, at every instant and
\* at every offset of the server's time zone from UTC.
C29_PrefixIsStampedDate ==
    [] \A id \in DOMAIN jobs :
         /\ SubSeq(jobs[id].estimateNumber, 1, 6) = PrefixOfDate(jobs[id].estimateDate)
         /\ jobs[id].invoiceNumber # NoNumber =>
              SubSeq(jobs[id].invoiceNumber, 1, 6) = PrefixOfDate(jobs[id].invoiceDate)


----------------------------------------------------------------------------
(* A day of estimating with deletions: estimates are created, with either of *)
(* two values of the random digits, and deleted, one call after the other    *)

\* the least and the greatest value of Math.floor(100 + Math.random() * 900)
RandomDigitsRange == { 100, 999 }

CreateLettered ==
    /\ nextId <= MaxCreated
    /\ \E randomDigits \in RandomDigitsRange :
           createEstimate(7, << good >>, Undefined, randomDigits)

NextLetters == Tick \/ CreateLettered \/ DeleteAnyEstimate

SpecLetters == Init /\ [][NextLetters]_vars

\* the last character of a number
lastChar(s) == s[Len(s)]

\* C30: with createEstimate and deleteEstimate called one after the other in
\* any order, any two stored estimates with the same day's prefix have
\* different sequence letters, so that an estimate number minted that day is
\* never equal to a stored one, whatever the random digits.
C30_SameDayLettersDistinct ==
    /\ [] \A a, b \in DOMAIN jobs :
            /\ a # b
            /\ SubSeq(jobs[a].estimateNumber, 1, 6) = SubSeq(jobs[b].estimateNumber, 1, 6)
            => lastChar(jobs[a].estimateNumber) # lastChar(jobs[b].estimateNumber)
    /\ [] \A id \in DOMAIN jobs, randomDigits \in RandomDigitsRange :
            generateEstimateNumber(randomDigits) # jobs[id].estimateNumber

=============================================================================
